---- MODULE Spec2Model ----
(***************************************************************************)
(* A model of coraxbotmax:                                                 *)
(*   validate_max_init_data  (src/app.py)    signed-payload validator       *)
(*   parse_subnet            (src/utils.py)  CIDR -> gateway / hosts / nodes*)
(*   parse_flavor            (src/utils.py)  "cpu/ram overcommit%" parser   *)
(*   require_max_auth and the endpoints it wraps, create_cluster_api with  *)
(*   setup_gitlab_project  (src/app.py, src/utils.py)                      *)
(*   the Keycloak login and the password login of a session  (src/app.py)  *)
(*                                                                         *)
(* Strings are sequences of characters.  A character is a TLA+ string: one *)
(* ASCII character stands for itself, "U+00E9" and "U+FFFD" stand for the  *)
(* non-ASCII characters of that code point, and a character of a hex       *)
(* digest is the symbolic character HexChar(term, i).  HMAC-SHA256 is the  *)
(* ideal (collision-free) MAC: the term <<"hmac", key, msg>>.              *)
(***************************************************************************)
EXTENDS Integers, Sequences, FiniteSets, TLC

VARIABLES
    init_data,     \* validate_max_init_data: the init_data argument
    bot_token,     \* validate_max_init_data: the bot_token argument
    now,           \* the clock read by time.time(), in clock ticks
    pc,            \* position of the request being served
    out,           \* what the last call of validate_max_init_data did
    prev,          \* the previous request on the same payload, when there is one
    sent,          \* what the sender of the payload put into it
    subnet,        \* parse_subnet: the subnet argument
    subnet_out,    \* what the last call of parse_subnet did
    flavor,        \* parse_flavor: the flavor argument
    flavor_out,    \* what the last call of parse_flavor did
    request,       \* the HTTP request being served: endpoint, X-Auth-Data, JSON body
    response,      \* the HTTP response to it
    handler_ran,   \* the body of the wrapped endpoint function was entered
    config,        \* the GitLab settings read from the environment at start
    gitlab,        \* what the GitLab server was asked to do, and did
    setup_out,     \* what the call of setup_gitlab_project did
    session,       \* the session of a browser: Keycloak state, verifier, is_authed
    kc             \* the last Keycloak request on the session and what it met

vars == <<init_data, bot_token, now, pc, out, prev, sent,
          subnet, subnet_out, flavor, flavor_out,
          request, response, handler_ran, config, gitlab, setup_out, session, kc>>

authVars   == <<init_data, bot_token, now, out, prev, sent>>
subnetVars == <<subnet, subnet_out>>
flavorVars == <<flavor, flavor_out>>
webVars    == <<request, response, handler_ran, config, gitlab, setup_out>>
kcVars     == <<session, kc>>

(***************************************************************************)
(* Bounds of the model.                                                    *)
(***************************************************************************)
\* fields of a payload besides the hash field
MaxFields == 2
\* characters of a hex digest (64 in the program)
HexLen == 2
\* resolution of the float clock: ticks per second
TicksPerSecond == 2
\* length of the flavor strings that are all tried
MaxFlavorLen == 5

\* /oauth/keycloak/init requests that store a state
MaxInits == 2

(***************************************************************************)
(* Characters and strings.                                                 *)
(***************************************************************************)
Digits == {"0", "1", "2", "3", "4", "5", "6", "7", "8", "9"}

DigitVal(c) ==
    CASE c = "0" -> 0 [] c = "1" -> 1 [] c = "2" -> 2 [] c = "3" -> 3
      [] c = "4" -> 4 [] c = "5" -> 5 [] c = "6" -> 6 [] c = "7" -> 7
      [] c = "8" -> 8 [] c = "9" -> 9

HexDigits == Digits \cup {"a", "b", "c", "d", "e", "f", "A", "B", "C", "D", "E", "F"}

HexVal(c) ==
    CASE c \in Digits -> DigitVal(c)
      [] c \in {"a", "A"} -> 10 [] c \in {"b", "B"} -> 11
      [] c \in {"c", "C"} -> 12 [] c \in {"d", "D"} -> 13
      [] c \in {"e", "E"} -> 14 [] c \in {"f", "F"} -> 15

\* The ASCII characters the model writes, with their code points.
AsciiTable ==
    <<  <<"\n", 10>>, <<" ", 32>>, <<"%", 37>>, <<"&", 38>>, <<"+", 43>>,
        <<"-", 45>>, <<"/", 47>>,
        <<"0", 48>>, <<"1", 49>>, <<"2", 50>>, <<"3", 51>>, <<"4", 52>>,
        <<"5", 53>>, <<"6", 54>>, <<"7", 55>>, <<"8", 56>>, <<"9", 57>>,
        <<"=", 61>>, <<"D", 68>>, <<"_", 95>>,
        <<"a", 97>>, <<"b", 98>>, <<"c", 99>>, <<"d", 100>>, <<"e", 101>>,
        <<"h", 104>>, <<"k", 107>>, <<"s", 115>>, <<"t", 116>>,
        <<"u", 117>>, <<"x", 120>> >>

AsciiChars == {AsciiTable[i][1] : i \in 1..Len(AsciiTable)}

NonAscii == {"U+00E9", "U+FFFD"}

\* ord(c): the code point.  A symbolic digest character is some hex digit;
\* no key the model sorts holds one.
Ord(c) ==
    IF c \in AsciiChars
    THEN LET i == CHOOSE j \in 1..Len(AsciiTable) : AsciiTable[j][1] = c
         IN  AsciiTable[i][2]
    ELSE IF c = "U+00E9" THEN 233
    ELSE IF c = "U+FFFD" THEN 65533
    ELSE 102

\* chr(n) for n < 128.
Chr(n) ==
    IF \E i \in 1..Len(AsciiTable) : AsciiTable[i][2] = n
    THEN LET i == CHOOSE j \in 1..Len(AsciiTable) : AsciiTable[j][2] = n
         IN  AsciiTable[i][1]
    ELSE ToString(<<"chr", n>>)

Min(a, b) == IF a < b THEN a ELSE b

\* a < b on str: lexicographic on code points, a proper prefix first.
StrLess(a, b) ==
    \E i \in 1..(Min(Len(a), Len(b)) + 1) :
        /\ \A j \in 1..(i - 1) : a[j] = b[j]
        /\ \/ i > Len(a) /\ i <= Len(b)
           \/ i <= Len(a) /\ i <= Len(b) /\ Ord(a[i]) < Ord(b[i])

\* s.split(sep): the segments of s between the occurrences of sep.
RECURSIVE Split(_, _)
Split(s, sep) ==
    IF \E i \in 1..Len(s) : s[i] = sep
    THEN LET i == CHOOSE j \in 1..Len(s) :
                      s[j] = sep /\ \A k \in 1..(j - 1) : s[k] # sep
         IN  <<SubSeq(s, 1, i - 1)>> \o Split(SubSeq(s, i + 1, Len(s)), sep)
    ELSE <<s>>

\* sep.join(parts)
RECURSIVE Join(_, _)
Join(parts, sep) ==
    IF parts = <<>> THEN <<>>
    ELSE IF Len(parts) = 1 THEN parts[1]
    ELSE parts[1] \o <<sep>> \o Join(Tail(parts), sep)

\* s.replace('+', ' ')
PlusToSpace(s) == [i \in 1..Len(s) |-> IF s[i] = "+" THEN " " ELSE s[i]]

\* One decoded byte as text (errors='replace'): an ASCII byte is its
\* character, a byte >= 0x80 that starts no valid UTF-8 sequence is U+FFFD.
\* No payload of the model holds two adjacent escapes that form a valid
\* multi-byte sequence.
ByteChar(b) == IF b < 128 THEN Chr(b) ELSE "U+FFFD"

\* urllib.parse.unquote: %xx escapes replaced, anything else kept.
RECURSIVE unquote(_)
unquote(s) ==
    IF s = <<>> THEN <<>>
    ELSE IF s[1] = "%" /\ Len(s) >= 3 /\ s[2] \in HexDigits /\ s[3] \in HexDigits
         THEN <<ByteChar(16 * HexVal(s[2]) + HexVal(s[3]))>>
                  \o unquote(SubSeq(s, 4, Len(s)))
         ELSE <<s[1]>> \o unquote(Tail(s))

(***************************************************************************)
(* validate_max_init_data (src/app.py).                                    *)
(***************************************************************************)
HASH == <<"h", "a", "s", "h">>
AUTH_DATE == <<"a", "u", "t", "h", "_", "d", "a", "t", "e">>
WebAppData == <<"W", "e", "b", "A", "p", "p", "D", "a", "t", "a">>
\* 24 hours, in seconds
MAX_AGE == 86400

\* The pairs of the fields, in order: an empty field, a field with no '='
\* and a field whose value is blank are skipped (strict_parsing and
\* keep_blank_values are left False); '+' and %xx are decoded in the rest.
RECURSIVE QslPairs(_)
QslPairs(query_args) ==
    IF query_args = <<>> THEN <<>>
    ELSE LET name_value == query_args[1]
             rest == QslPairs(Tail(query_args))
         IN  IF name_value = <<>> THEN rest
             ELSE IF ~(\E i \in 1..Len(name_value) : name_value[i] = "=") THEN rest
             ELSE LET i == CHOOSE j \in 1..Len(name_value) :
                               /\ name_value[j] = "="
                               /\ \A k \in 1..(j - 1) : name_value[k] # "="
                      nv1 == SubSeq(name_value, 1, i - 1)
                      nv2 == SubSeq(name_value, i + 1, Len(name_value))
                  IN  IF Len(nv2) = 0 THEN rest
                      ELSE << <<unquote(PlusToSpace(nv1)),
                                unquote(PlusToSpace(nv2))>> >> \o rest

\* urllib.parse.parse_qsl(qs) with its defaults.
parse_qsl(qs) == IF qs = <<>> THEN <<>> ELSE QslPairs(Split(qs, "&"))

\* d[k] = v on a dict kept as its items in insertion order.
DictSet(d, k, v) ==
    IF \E i \in 1..Len(d) : d[i][1] = k
    THEN [i \in 1..Len(d) |-> IF d[i][1] = k THEN <<k, v>> ELSE d[i]]
    ELSE Append(d, <<k, v>>)

RECURSIVE DictFill(_, _)
DictFill(d, pairs) ==
    IF pairs = <<>> THEN d
    ELSE DictFill(DictSet(d, pairs[1][1], pairs[1][2]), Tail(pairs))

\* dict(pairs): a repeated key keeps its first position and its last value.
dict(pairs) == DictFill(<<>>, pairs)

DictHas(d, k) == \E i \in 1..Len(d) : d[i][1] = k

\* d.get(k) of a key that is there.
DictGet(d, k) == d[CHOOSE i \in 1..Len(d) : d[i][1] = k][2]

\* d after d.pop(k, None).
DictPop(d, k) == SelectSeq(d, LAMBDA item : item[1] # k)

RemoveAt(s, i) == SubSeq(s, 1, i - 1) \o SubSeq(s, i + 1, Len(s))

\* the items as the dict holds them, not sorted
sorted_not(items) == items

\* sorted(items): ascending by key (the keys of a dict are distinct).
RECURSIVE sorted(_)
sorted(items) ==
    IF items = <<>> THEN <<>>
    ELSE LET i == CHOOSE j \in 1..Len(items) :
                      \A o \in 1..Len(items) : ~StrLess(items[o][1], items[j][1])
         IN  <<items[i]>> \o sorted(RemoveAt(items, i))

\* "\n".join(f"{k}={v}" for k, v in items)
JoinLines(items) ==
    Join([i \in 1..Len(items) |-> items[i][1] \o <<"=">> \o items[i][2]], "\n")

\* hmac.new(key, msg, sha256).digest()
HmacSha256(key, msg) == <<"hmac", key, msg>>

HexChar(digest, i) == ToString(<<digest, i>>)

\* .hexdigest(): HexLen lowercase hex characters.
HexDigest(digest) == [i \in 1..HexLen |-> HexChar(digest, i)]

\* the key and the message of the signing key, one for the other
SecretKeySwapped(token) == HmacSha256(token, WebAppData)

\* the signing key of the validator
SecretKey(token) == HmacSha256(WebAppData, token)

CalculatedHash(token, data_check_string) ==
    HexDigest(HmacSha256(SecretKey(token), data_check_string))

Whitespace == {" ", "\n"}

RECURSIVE LStrip(_)
LStrip(s) == IF s # <<>> /\ s[1] \in Whitespace THEN LStrip(Tail(s)) ELSE s

RECURSIVE RStrip(_)
RStrip(s) ==
    IF s # <<>> /\ s[Len(s)] \in Whitespace THEN RStrip(SubSeq(s, 1, Len(s) - 1))
    ELSE s

RECURSIVE DigitsValue(_)
DigitsValue(s) ==
    IF s = <<>> THEN 0
    ELSE 10 * DigitsValue(SubSeq(s, 1, Len(s) - 1)) + DigitVal(s[Len(s)])

\* int(s) of a str: surrounding whitespace, a sign, decimal digits with
\* single underscores between them.  ok = FALSE is ValueError.
ParseInt(s) ==
    LET t == RStrip(LStrip(s))
        signed == t # <<>> /\ t[1] \in {"-", "+"}
        body == IF signed THEN Tail(t) ELSE t
        wellFormed ==
            /\ body # <<>>
            /\ \A i \in 1..Len(body) : body[i] \in Digits \cup {"_"}
            /\ body[1] \in Digits /\ body[Len(body)] \in Digits
            /\ \A i \in 1..(Len(body) - 1) : ~(body[i] = "_" /\ body[i + 1] = "_")
        mag == DigitsValue(SelectSeq(body, LAMBDA c : c \in Digits))
    IN  IF ~wellFormed THEN [ok |-> FALSE, val |-> 0]
        ELSE [ok |-> TRUE, val |-> IF signed /\ t[1] = "-" THEN 0 - mag ELSE mag]

\* >= in place of >
ExpiredAtEdge(auth_date, t) ==
    auth_date # 0 /\ (t - auth_date * TicksPerSecond) >= MAX_AGE * TicksPerSecond

\* auth_date and (time.time() - auth_date) > 86400, the clock in ticks
Expired(auth_date, t) ==
    auth_date # 0 /\ (t - auth_date * TicksPerSecond) > MAX_AGE * TicksPerSecond

\* calculated_hash.startswith(received_hash) in place of the comparison
compare_digest_prefix(a, b) == Len(b) <= Len(a) /\ SubSeq(a, 1, Len(b)) = b

\* hmac.compare_digest(a, b) of two ASCII str
compare_digest(a, b) == a = b

\* What a call did: kind "return" with the value returned, or kind "raise"
\* (an exception left the function); hashed says that the hash was found
\* and the check-string built, received_hash and data_check_string are the
\* locals of that name.
Outcome(kind, value, hashed, rh, dcs) ==
    [kind |-> kind, value |-> value, hashed |-> hashed,
     received_hash |-> rh, data_check_string |-> dcs]

NoOutcome == Outcome("none", FALSE, FALSE, <<>>, <<>>)

\* The body of the try block.
TryBody(data, token, t) ==
    LET parsed_data == dict(parse_qsl(data))
        rest == DictPop(parsed_data, HASH)
        data_check_string == JoinLines(sorted(rest))
        calculated_hash == CalculatedHash(token, data_check_string)
    IN  IF ~DictHas(parsed_data, HASH) \/ DictGet(parsed_data, HASH) = <<>>
        THEN Outcome("return", FALSE, FALSE, <<>>, <<>>)
        ELSE LET received_hash == DictGet(parsed_data, HASH)
                 Did(kind, value) ==
                     Outcome(kind, value, TRUE, received_hash, data_check_string)
             IN  \* hmac.compare_digest: TypeError on a non-ASCII str
                 IF \E i \in 1..Len(received_hash) : received_hash[i] \in NonAscii
                 THEN Did("raise", FALSE)
                 ELSE IF ~compare_digest(calculated_hash, received_hash)
                 THEN Did("return", FALSE)
                 ELSE IF ~DictHas(rest, AUTH_DATE)
                 THEN Did("return", TRUE)
                 ELSE LET auth_date == ParseInt(DictGet(rest, AUTH_DATE))
                      IN  IF ~auth_date.ok
                          THEN Did("raise", FALSE)
                          ELSE Did("return", ~Expired(auth_date.val, t))

\* the exception is let through
ExceptHandlerReraise(o) == o

\* except Exception: log, return False
ExceptHandler(o) == [o EXCEPT !.kind = "return", !.value = FALSE]

validate_max_init_data(data, token, t) ==
    IF data = <<>> \/ token = <<>>
    THEN Outcome("return", FALSE, FALSE, <<>>, <<>>)
    ELSE LET o == TryBody(data, token, t)
         IN  IF o.kind = "raise" THEN ExceptHandler(o) ELSE o

(***************************************************************************)
(* parse_subnet (src/utils.py; src/bot.py holds the same function).        *)
(*                                                                         *)
(* The subnet argument is given by what ipaddress reads in it: kind        *)
(* "empty" is the string "", kind "malformed" a text that is no address,   *)
(* kind "cidr" the text "a.b.c.d/prefix" (prefix -1: no "/prefix" part).   *)
(* An address is its four octets.                                          *)
(***************************************************************************)
RECURSIVE Pow2(_)
Pow2(n) == IF n = 0 THEN 1 ELSE 2 * Pow2(n - 1)

Max(a, b) == IF a > b THEN a ELSE b

DigitChars == <<"0", "1", "2", "3", "4", "5", "6", "7", "8", "9">>

\* str(n) of an int n >= 0
RECURSIVE Decimal(_)
Decimal(n) ==
    IF n < 10 THEN <<DigitChars[n + 1]>>
    ELSE Decimal(n \div 10) \o <<DigitChars[(n % 10) + 1]>>

\* str(address): dotted decimal
AddressStr(a) == Join([k \in 1..4 |-> Decimal(a[k])], ".")

\* the host bits kept as written
MaskAddressKept(a, prefixlen) == a

\* the address with the host bits of a /prefixlen network cleared
MaskAddress(a, prefixlen) ==
    [k \in 1..4 |->
        LET hostbits == Min(8, Max(0, 8 * k - prefixlen))
        IN  a[k] - (a[k] % Pow2(hostbits))]

\* address + i, octet by octet
AddressPlus(a, i) ==
    LET v4 == a[4] + i
        v3 == a[3] + (v4 \div 256)
        v2 == a[2] + (v3 \div 256)
        v1 == a[1] + (v2 \div 256)
    IN  <<v1 % 256, v2 % 256, v3 % 256, v4 % 256>>

\* an exception leaves the function: nothing is returned
Raise(exc, msg) ==
    [kind |-> "raise", exc |-> exc, msg |-> msg, value |-> <<>>, corax_nodes |-> <<>>]

\* ipaddress.IPv4Network(subnet, strict=False): the network of the address,
\* host bits cleared; no "/prefix" is /32.  ok = FALSE: exc is raised.
IPv4Network(sn) ==
    IF sn.kind \in {"empty", "malformed"}
    THEN [ok |-> FALSE, exc |-> "AddressValueError", network_address |-> <<>>, prefixlen |-> 0]
    ELSE IF sn.prefix = -1
    THEN [ok |-> TRUE, exc |-> "", network_address |-> sn.addr, prefixlen |-> 32]
    ELSE IF sn.prefix \notin 0..32
    THEN [ok |-> FALSE, exc |-> "NetmaskValueError", network_address |-> <<>>, prefixlen |-> 0]
    ELSE [ok |-> TRUE, exc |-> "", network_address |-> MaskAddress(sn.addr, sn.prefix),
          prefixlen |-> sn.prefix]

\* len(list(network)): every address of the network, network and broadcast
\* address included
NetworkLen(network) == Pow2(32 - network.prefixlen)

\* list(network)[i], i a valid index
NetworkAt(network, i) == AddressPlus(network.network_address, i)

\* list(network)[5:]
SkipFirstFive == 4 + 1

\* the first index of all_addresses = list(network)[4:] in list(network)
SkipFirst == 4

\* len(list(network)), the first 4 counted too
AllAddressesLenUnsliced(network) == NetworkLen(network)

\* len(list(network)[4:])
AllAddressesLen(network) == Max(0, NetworkLen(network) - SkipFirst)

\* the index of list(network) the gateway is read at
GatewayIndex == 1

\* "the 4th address (index 3 after network start)"
DeployIndexThree == 4 - 1

\* the index of list(network) the deploy node is read at
DeployIndex == 4

node_names ==
    <<"kafka-bpmx-01.testgis-platform.tech.pd33.testowner.gtn",
      "kafka-bpmx-02.testgis-platform.tech.pd33.testowner.gtn",
      "kafka-bpmx-03.testgis-platform.tech.pd33.testowner.gtn">>

\* the roles in alphabetical order
roles_sorted == <<"crxsr", "crxui", "kafka", "zookeeper">>

roles == <<"kafka", "zookeeper", "crxsr", "crxui">>

\* all_addresses[i + 1] in place of all_addresses[i]
NodeInfoNext(network, i) ==
    [name |-> node_names[i + 1],
     host |-> AddressStr(NetworkAt(network, SkipFirst + i + 1)),
     user |-> "root",
     roles |-> roles]

\* node_info of node i (from 0): all_addresses[i] is list(network)[4 + i]
NodeInfo(network, i) ==
    [name |-> node_names[i + 1],
     host |-> AddressStr(NetworkAt(network, SkipFirst + i)),
     user |-> "root",
     roles |-> roles]

\* json.dumps(s) of a str whose characters are s
JsonStr(chars) == <<"\"">> \o chars \o <<"\"">>

\* json.dumps of one node_info: the keys in the order they were set
JsonNode(n) ==
    <<"{">> \o JsonStr(<<"name">>) \o <<": ">> \o JsonStr(<<n.name>>)
        \o <<", ">> \o JsonStr(<<"host">>) \o <<": ">> \o JsonStr(n.host)
        \o <<", ">> \o JsonStr(<<"user">>) \o <<": ">> \o JsonStr(<<n.user>>)
        \o <<", ">> \o JsonStr(<<"roles">>) \o <<": ">>
        \o <<"[">> \o Join([i \in 1..Len(n.roles) |-> JsonStr(<<n.roles[i]>>)], ", ")
        \o <<"]">> \o <<"}">>

\* json.dumps(corax_nodes): the text, piece by piece
json_dumps(nodes) ==
    <<"[">> \o Join([i \in 1..Len(nodes) |-> JsonNode(nodes[i])], ", ") \o <<"]">>

Returned(gateway, deploy, nodes_json, nodes) ==
    [kind |-> "return", exc |-> "", msg |-> "",
     value |-> <<[CLUSTER_GATEWAY |-> gateway, DEPLOY_NODE_HOST |-> deploy,
                  CORAX_NODES |-> nodes_json]>>,
     corax_nodes |-> nodes]

\* parse_subnet from "network = ..." on
DeriveSubnet(sn) ==
         LET network == IPv4Network(sn)
         IN  IF ~network.ok THEN Raise(network.exc, "not a valid network")
             ELSE IF AllAddressesLen(network) < 3
             THEN Raise("ValueError", "Not enough IP addresses available in subnet")
             ELSE IF GatewayIndex >= NetworkLen(network)
             THEN Raise("IndexError", "list index out of range")
             ELSE IF DeployIndex >= NetworkLen(network)
             THEN Raise("IndexError", "list index out of range")
             ELSE IF \E i \in 0..2 : i >= AllAddressesLen(network)
             THEN Raise("IndexError", "list index out of range")
             ELSE LET corax_nodes == [i \in 1..3 |-> NodeInfo(network, i - 1)]
                  IN  Returned(AddressStr(NetworkAt(network, GatewayIndex)),
                               AddressStr(NetworkAt(network, DeployIndex)),
                               json_dumps(corax_nodes), corax_nodes)

\* no "if not subnet" before the network is parsed
parse_subnet_unguarded(sn) == DeriveSubnet(sn)

parse_subnet(sn) ==
    IF sn.kind = "empty" THEN Returned(<<>>, <<>>, <<>>, <<>>)
    ELSE DeriveSubnet(sn)

(***************************************************************************)
(* parse_flavor (src/utils.py; src/bot.py holds the same function).        *)
(***************************************************************************)
\* \s, among the characters the model writes
ReSpace == {" ", "\t", "\n"}

AllIn(s, from, to, chars) == \A i \in from..to : s[i] \in chars

\* The ways (\d+)/(\d+)\s*(\d+)%? matches a prefix of s: <<a, b, w, c, q>> are
\* the lengths of group 1, group 2, the whitespace, group 3 and the '%'.
FlavorMatches(s) ==
    LET n == Len(s)
    IN  {m \in (1..n) \X (1..n) \X (0..n) \X (1..n) \X {0, 1} :
            /\ m[1] + 1 + m[2] + m[3] + m[4] + m[5] <= n
            /\ AllIn(s, 1, m[1], Digits)
            /\ s[m[1] + 1] = "/"
            /\ AllIn(s, m[1] + 2, m[1] + 1 + m[2], Digits)
            /\ AllIn(s, m[1] + 2 + m[2], m[1] + 1 + m[2] + m[3], ReSpace)
            /\ AllIn(s, m[1] + 2 + m[2] + m[3], m[1] + 1 + m[2] + m[3] + m[4], Digits)
            /\ m[5] = 1 => s[m[1] + 2 + m[2] + m[3] + m[4]] = "%"}

\* m is tried before o: every quantifier is greedy, the earlier one first
TriedBefore(m, o) ==
    \E k \in 1..5 : (\A j \in 1..(k - 1) : m[j] = o[j]) /\ m[k] > o[k]

\* The pattern tried at the first character of s: <<>> is None, else
\* <<groups>>, the groups of the first match the backtracking search comes to
MatchAtStart(s) ==
    LET ms == FlavorMatches(s)
    IN  IF ms = {} THEN <<>>
        ELSE LET m == CHOOSE x \in ms : \A o \in ms \ {x} : TriedBefore(x, o)
             IN  << <<SubSeq(s, 1, m[1]),
                      SubSeq(s, m[1] + 2, m[1] + 1 + m[2]),
                      SubSeq(s, m[1] + 2 + m[2] + m[3], m[1] + 1 + m[2] + m[3] + m[4])>> >>

\* re.search in place of re.match: the leftmost place the pattern matches at
re_search(s) ==
    LET starts == {i \in 1..Len(s) : MatchAtStart(SubSeq(s, i, Len(s))) # <<>>}
    IN  IF starts = {} THEN <<>>
        ELSE LET i == CHOOSE x \in starts : \A o \in starts : x <= o
             IN  MatchAtStart(SubSeq(s, i, Len(s)))

\* re.match(r"(\d+)/(\d+)\s*(\d+)%?", s): the pattern at the start of s
\* only, and whatever follows the match is left alone
re_match(s) == MatchAtStart(s)

\* int(overcommit) == 30 in place of overcommit == "30"
OvercommitByValue(group3) ==
    IF DigitsValue(group3) = 30 THEN <<"1", ":", "3">> ELSE group3

\* if result["overcommit"] == "30": result["overcommit"] = "1:3"
Overcommit(group3) == IF group3 = <<"3", "0">> THEN <<"1", ":", "3">> ELSE group3

FlavorResult(cpu, ram, overcommit) == [cpu |-> cpu, ram |-> ram, overcommit |-> overcommit]

\* no call yet
NoFlavorCall == FlavorResult(<<"-">>, <<"-">>, <<"-">>)

parse_flavor(fl) ==
    IF fl = <<>> THEN FlavorResult(<<>>, <<>>, <<>>)
    ELSE LET match == re_match(fl)
         IN  IF match = <<>> THEN FlavorResult(<<>>, <<>>, <<>>)
             ELSE FlavorResult(match[1][1], match[1][2], Overcommit(match[1][3]))

(***************************************************************************)
(* The web layer (src/app.py): requests, responses, the settings and the   *)
(* session.  A value that may be absent (None, a missing key) is a         *)
(* sequence of length 0 or 1.                                              *)
(***************************************************************************)
\* request.json is: "unreadable" the framework refuses the body before the
\* handler sees it, "null" None, "falsy" an empty object / array / string
\* or 0 or false, "array" a non-empty JSON value that is no object,
\* "object" a non-empty object with or without title, subnet, flavor
Body(kind, title, sn, fl) == [kind |-> kind, title |-> title, subnet |-> sn, flavor |-> fl]

NoBody == Body("null", <<>>, <<>>, <<>>)

\* header: the X-Auth-Data header, absent or its text
Request(endpoint, header, body) == [endpoint |-> endpoint, header |-> header, body |-> body]

NoRequest == Request("none", <<>>, NoBody)

\* jsonify(...), status: success is the "success" member when there is one,
\* error the "error" member, ids says that pipeline_id and project_id are
\* members
JsonResponse(status, success, error, ids) ==
    [status |-> status, json |-> TRUE, success |-> success, error |-> error, ids |-> ids]

\* an error page of the framework
ErrorPage(status) ==
    [status |-> status, json |-> FALSE, success |-> <<>>, error |-> "", ids |-> FALSE]

NoResponse == ErrorPage(0)

\* GITLAB_URL and GITLAB_TOKEN are set (gitlab_client), GITLAB_GROUP_ID,
\* GITLAB_INCLUDE_PROJECT is set; KEYCLOAK_URL, KEYCLOAK_REALM,
\* KEYCLOAK_CLIENT_ID and APP_ORIGIN are set (keycloak); USERNAME and
\* PASSWORD are os.getenv("APP_USERNAME", "") and os.getenv("APP_PASSWORD", ""),
\* the empty text when the variable is not set
Config(gitlab_client, group_id, include_project, keycloak) ==
    [gitlab_client |-> gitlab_client, GITLAB_GROUP_ID |-> group_id,
     include_project |-> include_project, keycloak |-> keycloak,
     USERNAME |-> <<>>, PASSWORD |-> <<>>]

NoConfig == Config(FALSE, <<>>, FALSE, FALSE)

\* The GitLab server: calls are the kinds of call made so far, in the order
\* of the first call of each kind; project and file say what exists,
\* vars_ok and vars_failed count the variables created and refused,
\* pipelines the pipelines started.
NoGitlab ==
    [calls |-> <<>>, project |-> FALSE, vars_ok |-> 0, vars_failed |-> 0,
     file |-> FALSE, pipelines |-> 0]

\* setup_gitlab_project: not called ("none"), returned, or raised exc at a step
SetupOutcome(kind, at, exc, msg) == [kind |-> kind, at |-> at, exc |-> exc, msg |-> msg]

NoSetup == SetupOutcome("none", "", "", "")

\* session[...] of the keys the Keycloak login uses
Session(state, verifier, is_authed) ==
    [keycloak_state |-> state, keycloak_code_verifier |-> verifier, is_authed |-> is_authed]

NoSession == Session(<<>>, <<>>, FALSE)

\* The last request to a session route (op "init", "callback", "logout",
\* "login"):
\* the parameters of a callback, what the session held when it came, what
\* the token endpoint answered, how the request ended (result), whether it
\* set is_authed, and whether its state had been accepted before (replay);
\* inits counts the states issued, issued is the state the latest init
\* stored, spent the states that callbacks accepted.
NoKc ==
    [op |-> "none", state |-> <<>>, code |-> <<>>, error |-> FALSE,
     stored_state |-> <<>>, stored_verifier |-> <<>>, exchange |-> "none",
     result |-> "none", authed |-> FALSE, replay |-> FALSE,
     inits |-> 0, issued |-> <<>>, spent |-> {}]

IdleWeb ==
    /\ request = NoRequest /\ response = NoResponse /\ handler_ran = FALSE
    /\ config = NoConfig /\ gitlab = NoGitlab /\ setup_out = NoSetup
    /\ session = NoSession /\ kc = NoKc

(***************************************************************************)
(* The senders of payloads.  A field is written with the key and the value *)
(* its sender means (pair = FALSE: a bare word, no key/value pair).  The   *)
(* sender signs the lines of the fields it chooses, sorted by key.         *)
(***************************************************************************)
Field(raw, pair, key, value) == [raw |-> raw, pair |-> pair, key |-> key, value |-> value]

F_a1  == Field(<<"a", "=", "1">>, TRUE, <<"a">>, <<"1">>)
F_a2  == Field(<<"a", "=", "2">>, TRUE, <<"a">>, <<"2">>)
F_b   == Field(<<"b", "=">>, TRUE, <<"b">>, <<>>)
F_c   == Field(<<"c">>, FALSE, <<"c">>, <<>>)
F_k   == Field(<<"k", "=", "%", "3", "d">>, TRUE, <<"k">>, <<"=">>)
F_d   == Field(<<"d", "=", "+">>, TRUE, <<"d">>, <<" ">>)
F_ad5 == Field(AUTH_DATE \o <<"=", "5">>, TRUE, AUTH_DATE, <<"5">>)
F_ad0 == Field(AUTH_DATE \o <<"=", "0">>, TRUE, AUTH_DATE, <<"0">>)
F_adx == Field(AUTH_DATE \o <<"=", "x">>, TRUE, AUTH_DATE, <<"x">>)

AuthPool == {F_a1, F_a2, F_b, F_c, F_k, F_d, F_ad5, F_ad0, F_adx}
ResendPool == {F_a1, F_a2, F_b, F_d}

\* the secret the senders sign with
SECRET == <<"S">>
Tokens == {<<>>, SECRET, <<"T">>}

\* the clock around the expiry of auth_date=5
NowValues ==
    LET edge == (MAX_AGE + 5) * TicksPerSecond
    IN  {0, edge - 1, edge, edge + 1}

\* sequences of at most n distinct elements of pool
FieldSeqs(pool, n) ==
    {fs \in UNION {[1..m -> pool] : m \in 0..n} :
        \A i, j \in 1..Len(fs) : i # j => fs[i] # fs[j]}

\* the lines the sender signs: the chosen pairs, ascending by key, in the
\* order written when the key repeats
RECURSIVE SenderSorted(_)
SenderSorted(fs) ==
    IF fs = <<>> THEN <<>>
    ELSE LET i == CHOOSE j \in 1..Len(fs) :
                      /\ \A o \in 1..Len(fs) : ~StrLess(fs[o].key, fs[j].key)
                      /\ \A o \in 1..(j - 1) : fs[o].key # fs[j].key
         IN  <<fs[i]>> \o SenderSorted(RemoveAt(fs, i))

SenderCheckString(fs) ==
    LET srt == SenderSorted(fs)
    IN  Join([i \in 1..Len(srt) |-> srt[i].key \o <<"=">> \o srt[i].value], "\n")

\* lowercase hex of HMAC(HMAC(key, msg), text)
SenderSign(key, msg, text) ==
    LET digest == <<"hmac", <<"hmac", key, msg>>, text>>
    IN  [i \in 1..HexLen |-> ToString(<<digest, i>>)]

SignedFields(s) ==
    LET idx == {i \in 1..Len(s.fields) : i \in s.signed /\ s.fields[i].pair}
        RECURSIVE Pick(_)
        Pick(i) == IF i > Len(s.fields) THEN <<>>
                   ELSE (IF i \in idx THEN <<s.fields[i]>> ELSE <<>>) \o Pick(i + 1)
    IN  Pick(1)

\* the hash the sender writes: "telegram" is key "WebAppData" / message
\* secret, "swapped" is key secret / message "WebAppData", "junk" is no
\* signature at all
SenderHash(s) ==
    CASE s.kind = "telegram" -> SenderSign(WebAppData, SECRET, SenderCheckString(SignedFields(s)))
      [] s.kind = "swapped"  -> SenderSign(SECRET, WebAppData, SenderCheckString(SignedFields(s)))
      [] s.kind = "junk"     -> <<"x">>

\* the payload as sent
Render(s) ==
    LET raws == [i \in 1..Len(s.fields) |-> s.fields[i].raw]
        hf == <<HASH \o <<"=">> \o SenderHash(s)>>
    IN  IF s.kind = "none" THEN Join(raws, "&")
        ELSE IF s.hash_first THEN Join(hf \o raws, "&")
        ELSE Join(raws \o hf, "&")

Sent(pool, kinds) ==
    {s \in [fields : FieldSeqs(pool, MaxFields), kind : kinds,
            signed : SUBSET (1..MaxFields), hash_first : BOOLEAN] :
        /\ s.signed \subseteq {i \in 1..Len(s.fields) : s.fields[i].pair}
        /\ s.kind \in {"none", "junk"} => s.signed = {}
        /\ s.kind = "none" => ~s.hash_first}

NoPrev == [kind |-> "none", init_data |-> <<>>, out |-> NoOutcome]

IdleParsers ==
    /\ subnet = [kind |-> "empty", addr |-> <<>>, prefix |-> -1]
    /\ subnet_out = [kind |-> "none", exc |-> "", msg |-> "", value |-> <<>>, corax_nodes |-> <<>>]
    /\ flavor = <<>> /\ flavor_out = NoFlavorCall

InitAuthWith(pool, kinds, tokens, clocks) ==
    /\ sent \in Sent(pool, kinds)
    /\ init_data = Render(sent)
    /\ bot_token \in tokens
    /\ now \in clocks
    /\ pc = "request"
    /\ out = NoOutcome
    /\ prev = NoPrev
    /\ IdleParsers
    /\ IdleWeb

InitAuth == InitAuthWith(AuthPool, {"none", "junk", "telegram", "swapped"}, Tokens, NowValues)

\* A request arrives and is validated.
Validate ==
    /\ pc \in {"request", "resent"}
    /\ out' = validate_max_init_data(init_data, bot_token, now)
    /\ pc' = IF pc = "request" THEN "done" ELSE "redone"
    /\ UNCHANGED <<init_data, bot_token, now, prev, sent, subnetVars, flavorVars,
                   webVars, kcVars>>

NextAuth == Validate

SpecAuth == InitAuth /\ [][NextAuth]_vars

(***************************************************************************)
(* A payload that was validated comes again, changed on the way: one       *)
(* character replaced, or its fields in another order.                     *)
(***************************************************************************)
TamperChars == {"&", "=", "\n", " ", "x", "U+00E9"}

InitResend ==
    InitAuthWith(ResendPool, {"telegram"}, {SECRET}, {(MAX_AGE + 5) * TicksPerSecond})

Resend(kind, data) ==
    /\ pc = "done"
    /\ init_data' = data
    /\ prev' = [kind |-> kind, init_data |-> init_data, out |-> out]
    /\ out' = NoOutcome
    /\ pc' = "resent"
    /\ UNCHANGED <<bot_token, now, sent, subnetVars, flavorVars, webVars, kcVars>>

\* exactly one character of the payload is replaced by another
Tamper ==
    \E i \in 1..Len(init_data), c \in TamperChars :
        /\ c # init_data[i]
        /\ Resend("tamper", [init_data EXCEPT ![i] = c])

\* the '&'-separated fields of the payload are put in another order
Reorder ==
    LET fields == Split(init_data, "&")
    IN  \E p \in Permutations(1..Len(fields)) :
            /\ \E i \in 1..Len(fields) : p[i] # i
            /\ Resend("reorder", Join([i \in 1..Len(fields) |-> fields[p[i]]], "&"))

NextResend == Validate \/ Tamper \/ Reorder

SpecResend == InitResend /\ [][NextResend]_vars

(***************************************************************************)
(* Calls of parse_subnet.                                                  *)
(***************************************************************************)
OctetValues == {0, 10, 77, 255}
PrefixValues == {-1, 8, 16, 24, 28, 29, 30, 31, 32, 33}

Cidr(addr, prefix) == [kind |-> "cidr", addr |-> addr, prefix |-> prefix]

SubnetInputs ==
    {[kind |-> "empty", addr |-> <<>>, prefix |-> -1],
     [kind |-> "malformed", addr |-> <<>>, prefix |-> -1]}
        \cup {Cidr(a, p) : a \in [1..4 -> OctetValues], p \in PrefixValues}

NoCall == [kind |-> "none", exc |-> "", msg |-> "", value |-> <<>>, corax_nodes |-> <<>>]

IdleValidator ==
    /\ init_data = <<>> /\ bot_token = <<>> /\ now = 0
    /\ out = NoOutcome /\ prev = NoPrev
    /\ sent = [fields |-> <<>>, kind |-> "none", signed |-> {}, hash_first |-> FALSE]

InitSubnet ==
    /\ subnet \in SubnetInputs
    /\ subnet_out = NoCall
    /\ flavor = <<>> /\ flavor_out = NoFlavorCall
    /\ pc = "request"
    /\ IdleValidator
    /\ IdleWeb

ParseSubnet ==
    /\ pc = "request"
    /\ subnet_out' = parse_subnet(subnet)
    /\ pc' = "done"
    /\ UNCHANGED <<subnet, authVars, flavorVars, webVars, kcVars>>

NextSubnet == ParseSubnet

SpecSubnet == InitSubnet /\ [][NextSubnet]_vars

(***************************************************************************)
(* Calls of parse_flavor: every string of at most MaxFlavorLen characters  *)
(* of FlavorChars, and the longer flavors of LongFlavors.                  *)
(***************************************************************************)
FlavorChars == {"3", "0", "/", " ", "%"}

ShortFlavors == UNION {[1..n -> FlavorChars] : n \in 0..MaxFlavorLen}

LongFlavors ==
    {head \o cpu \o <<"/">> \o ram \o ws \o oc \o pct \o tail :
        head \in {<<>>, <<"x">>},
        cpu \in {<<"2">>, <<"8">>},
        ram \in {<<"4">>, <<"1", "6">>},
        ws \in {<<>>, <<" ">>},
        oc \in {<<"3">>, <<"3", "0">>, <<"0", "3", "0">>, <<"3", "0", "0">>, <<"4", "5">>},
        pct \in {<<>>, <<"%">>},
        tail \in {<<>>, <<"x">>, <<" ">>}}

FlavorInputs == ShortFlavors \cup LongFlavors

InitFlavor ==
    /\ flavor \in FlavorInputs
    /\ flavor_out = NoFlavorCall
    /\ subnet = [kind |-> "empty", addr |-> <<>>, prefix |-> -1]
    /\ subnet_out = NoCall
    /\ pc = "request"
    /\ IdleValidator
    /\ IdleWeb

ParseFlavor ==
    /\ pc = "request"
    /\ flavor_out' = parse_flavor(flavor)
    /\ pc' = "done"
    /\ UNCHANGED <<flavor, authVars, subnetVars, webVars, kcVars>>

NextFlavor == ParseFlavor

SpecFlavor == InitFlavor /\ [][NextFlavor]_vars

\* a decorator that calls the wrapped function whatever the validation says
decorated_function_unchecked(auth_header, is_valid) ==
    IF auth_header = <<>> \/ auth_header[1] = <<>> THEN "401" ELSE "call"

\* decorated_function of require_max_auth: answer 401, answer 403, or call
\* the wrapped function; auth_header is request.headers.get('X-Auth-Data'),
\* is_valid what validate_max_init_data(auth_header, BOT_TOKEN) gave
decorated_function(auth_header, is_valid) ==
    IF auth_header = <<>> \/ auth_header[1] = <<>> THEN "401"
    ELSE IF is_valid.kind # "return" THEN "raise"
    ELSE IF ~is_valid.value THEN "403"
    ELSE "call"

\* the request is over with this response
Respond(r) == response' = r /\ pc' = "done"

RequireMaxAuth ==
    /\ pc = "request"
    /\ IF request.header = <<>> \/ request.header[1] = <<>>
       THEN out' = NoOutcome /\ UNCHANGED init_data
       ELSE /\ init_data' = request.header[1]
            /\ out' = validate_max_init_data(request.header[1], bot_token, now)
    /\ LET step == decorated_function(request.header, out')
       IN  CASE step = "401" ->
                    Respond(JsonResponse(401, <<>>, "No authentication data provided", FALSE))
             [] step = "403" ->
                    Respond(JsonResponse(403, <<>>, "Invalid authentication signature", FALSE))
             [] step = "raise" -> Respond(ErrorPage(500))
             [] step = "call" -> pc' = "handler" /\ UNCHANGED response
    /\ UNCHANGED <<bot_token, now, prev, sent, subnetVars, flavorVars,
                   request, handler_ran, config, gitlab, setup_out, kcVars>>

\* get_vms_count_api and check_pipeline_status: they answer 200 or, when
\* the service they ask fails, 500
OtherEndpoint ==
    /\ pc = "handler"
    /\ request.endpoint \in {"vms-count", "pipeline-status"}
    /\ handler_ran' = TRUE
    /\ \/ Respond(JsonResponse(200, <<TRUE>>, "", FALSE))
       \/ Respond(JsonResponse(500, <<FALSE>>, "error", FALSE))
    /\ UNCHANGED <<authVars, subnetVars, flavorVars, request, config, gitlab, setup_out,
                   kcVars>>

required_fields == <<"title", "subnet", "flavor">>

\* not data.get(field), data an object
FieldMissing(data, field) ==
    CASE field = "title" -> data.title = <<>> \/ data.title[1] = <<>>
      [] field = "subnet" -> data.subnet = <<>> \/ data.subnet[1].kind = "empty"
      [] field = "flavor" -> data.flavor = <<>> \/ data.flavor[1] = <<>>

\* create_cluster_api up to the try: what it returns, or "setup" when the
\* body has the three fields
CheckBody(data) ==
    IF data.kind \in {"null", "falsy"}
    THEN [step |-> "respond", response |-> JsonResponse(400, <<FALSE>>, "No data provided", FALSE)]
    ELSE IF data.kind = "array"
    THEN \* data.get: AttributeError, outside the try
         [step |-> "respond", response |-> ErrorPage(500)]
    ELSE LET missing == {i \in 1..Len(required_fields) : FieldMissing(data, required_fields[i])}
         IN  IF missing # {}
             THEN LET i == CHOOSE x \in missing : \A o \in missing : x <= o
                  IN  [step |-> "respond",
                       response |-> JsonResponse(400, <<FALSE>>, required_fields[i], FALSE)]
             ELSE [step |-> "setup", response |-> NoResponse]

CreateClusterApi ==
    /\ pc = "handler"
    /\ request.endpoint = "create-cluster"
    /\ handler_ran' = TRUE
    /\ IF request.body.kind = "unreadable"
       THEN \* request.json: the framework answers for the handler
            /\ \E status \in {400, 415} : Respond(ErrorPage(status))
            /\ UNCHANGED <<subnet, flavor>>
       ELSE LET c == CheckBody(request.body)
            IN  IF c.step = "respond"
                THEN Respond(c.response) /\ UNCHANGED <<subnet, flavor>>
                ELSE /\ pc' = "create_project"
                     /\ subnet' = request.body.subnet[1]
                     /\ flavor' = request.body.flavor[1]
                     /\ UNCHANGED response
    /\ UNCHANGED <<authVars, subnet_out, flavor_out, request, config, gitlab, setup_out,
                   kcVars>>

\* ValueError and its subclasses
IsValueError(exc) == exc \in {"ValueError", "AddressValueError", "NetmaskValueError"}

\* every exception answers 500
ExceptResponseAll500(exc, msg) == JsonResponse(500, <<FALSE>>, msg, FALSE)

\* the except clauses of create_cluster_api
ExceptResponse(exc, msg) ==
    IF IsValueError(exc) THEN JsonResponse(400, <<FALSE>>, msg, FALSE)
    ELSE JsonResponse(500, <<FALSE>>, msg, FALSE)

\* the pipeline is started before .gitlab-ci.yml is committed
StepAfterTriggerFirst(step) ==
    CASE step = "create_project" -> "parse"
      [] step = "parse" -> "variables"
      [] step = "variables" -> "trigger"
      [] step = "trigger" -> "ci_file"
      [] step = "ci_file" -> "return"

\* the statements of setup_gitlab_project, in their order
StepAfter(step) ==
    CASE step = "create_project" -> "parse"
      [] step = "parse" -> "variables"
      [] step = "variables" -> "ci_file"
      [] step = "ci_file" -> "trigger"
      [] step = "trigger" -> "return"

\* A call of the GitLab server returns, or raises: GitlabCreateError (the
\* server refused), another GitlabError, or an error of the connection.
ApiOutcomes == {"ok", "GitlabCreateError", "GitlabAuthenticationError", "ConnectionError"}

\* the call is noted, once for each kind of call
Called(op) ==
    IF gitlab.calls # <<>> /\ gitlab.calls[Len(gitlab.calls)] = op
    THEN gitlab.calls
    ELSE Append(gitlab.calls, op)

\* exc leaves setup_gitlab_project at the step and create_cluster_api
\* answers for it
SetupRaises(exc, msg) ==
    /\ setup_out' = SetupOutcome("raise", pc, exc, msg)
    /\ Respond(ExceptResponse(exc, msg))

\* get_gitlab_client and create_gitlab_project
CreateProject ==
    /\ pc = "create_project"
    /\ IF ~config.gitlab_client
       THEN SetupRaises("ValueError", "GitLab configuration missing") /\ UNCHANGED gitlab
       ELSE IF config.GITLAB_GROUP_ID = <<>>
       THEN SetupRaises("ValueError", "GITLAB_GROUP_ID not configured") /\ UNCHANGED gitlab
       ELSE IF ~ParseInt(config.GITLAB_GROUP_ID).ok
       THEN SetupRaises("ValueError", "GITLAB_GROUP_ID must be a valid integer")
                /\ UNCHANGED gitlab
       ELSE \E result \in ApiOutcomes :
               IF result = "ok"
               THEN /\ gitlab' = [gitlab EXCEPT !.calls = Called("project"), !.project = TRUE]
                    /\ pc' = StepAfter(pc)
                    /\ UNCHANGED <<setup_out, response>>
               ELSE /\ gitlab' = [gitlab EXCEPT !.calls = Called("project")]
                    /\ SetupRaises(result, "gl.projects.create")
    /\ UNCHANGED <<authVars, subnetVars, flavorVars, request, handler_ran, config, kcVars>>

\* subnet_config = parse_subnet(subnet); flavor_config = parse_flavor(flavor)
ParseConfig ==
    /\ pc = "parse"
    /\ subnet_out' = parse_subnet(subnet)
    /\ IF subnet_out'.kind = "raise"
       THEN SetupRaises(subnet_out'.exc, subnet_out'.msg) /\ UNCHANGED flavor_out
       ELSE /\ flavor_out' = parse_flavor(flavor)
            /\ pc' = StepAfter(pc)
            /\ UNCHANGED <<setup_out, response>>
    /\ UNCHANGED <<authVars, subnet, flavor, request, handler_ran, config, gitlab, kcVars>>

\* the keys of the variables dict
VariableKeys ==
    <<"ENGINE_REPO", "ENGINE_TEMP_DIR", "CI_JOB_TOKEN", "CLOUDRU_PROJECT_ID", "project_id",
      "CLUSTER_SUBNET", "CLUSTER_GATEWAY", "DEPLOY_NODE_HOST", "CORAX_NODES",
      "GIS_PROJECT_NAME", "CLUSTER_NUMBER", "KAFKA_BROKER_CPU", "KAFKA_BROKER_RAM",
      "KAFKA_BROKER_OVERSUBSCRIPTION">>

\* set_project_variables: one turn of the loop.  GitlabCreateError is logged
\* and the loop goes on; any other error leaves the function.
SetVariable ==
    /\ pc = "variables"
    /\ LET turn == gitlab.vars_ok + gitlab.vars_failed + 1
           next == IF turn = Len(VariableKeys) THEN StepAfter(pc) ELSE pc
       IN  \E result \in ApiOutcomes :
               CASE result = "ok" ->
                      /\ gitlab' = [gitlab EXCEPT !.calls = Called("variables"),
                                                  !.vars_ok = @ + 1]
                      /\ pc' = next
                      /\ UNCHANGED <<setup_out, response>>
                 [] result = "GitlabCreateError" ->
                      /\ gitlab' = [gitlab EXCEPT !.calls = Called("variables"),
                                                  !.vars_failed = @ + 1]
                      /\ pc' = next
                      /\ UNCHANGED <<setup_out, response>>
                 [] OTHER ->
                      /\ gitlab' = [gitlab EXCEPT !.calls = Called("variables")]
                      /\ SetupRaises(result, VariableKeys[turn])
    /\ UNCHANGED <<authVars, subnetVars, flavorVars, request, handler_ran, config, kcVars>>

\* create_gitlab_ci_file
CreateCiFile ==
    /\ pc = "ci_file"
    /\ IF ~config.include_project
       THEN SetupRaises("ValueError", "GITLAB_INCLUDE_PROJECT not configured")
                /\ UNCHANGED gitlab
       ELSE \E result \in ApiOutcomes :
               IF result = "ok"
               THEN /\ gitlab' = [gitlab EXCEPT !.calls = Called("file"), !.file = TRUE]
                    /\ pc' = StepAfter(pc)
                    /\ UNCHANGED <<setup_out, response>>
               ELSE /\ gitlab' = [gitlab EXCEPT !.calls = Called("file")]
                    /\ SetupRaises(result, "project.files.create")
    /\ UNCHANGED <<authVars, subnetVars, flavorVars, request, handler_ran, config, kcVars>>

\* trigger_pipeline
TriggerPipeline ==
    /\ pc = "trigger"
    /\ \E result \in ApiOutcomes :
          IF result = "ok"
          THEN /\ gitlab' = [gitlab EXCEPT !.calls = Called("pipeline"), !.pipelines = @ + 1]
               /\ pc' = StepAfter(pc)
               /\ UNCHANGED <<setup_out, response>>
          ELSE /\ gitlab' = [gitlab EXCEPT !.calls = Called("pipeline")]
               /\ SetupRaises(result, "project.pipelines.create")
    /\ UNCHANGED <<authVars, subnetVars, flavorVars, request, handler_ran, config, kcVars>>

\* setup_gitlab_project returns its dict and create_cluster_api answers
SetupReturns ==
    /\ pc = "return"
    /\ setup_out' = SetupOutcome("return", pc, "", "")
    /\ Respond(JsonResponse(200, <<TRUE>>, "", TRUE))
    /\ UNCHANGED <<authVars, subnetVars, flavorVars, request, handler_ran, config, gitlab,
                   kcVars>>

(***************************************************************************)
(* Requests to the wrapped endpoints.                                      *)
(***************************************************************************)
\* the payloads of X-Auth-Data: signed over its field, signed over nothing,
\* not signed
ApiSent ==
    {s \in Sent({F_a1}, {"telegram", "junk"}) : Len(s.fields) = 1 /\ ~s.hash_first}

UnsentPayload == [fields |-> <<>>, kind |-> "none", signed |-> {}, hash_first |-> FALSE]

Chars_2_4_30 == <<"2", "/", "4", " ", "3", "0", "%">>
Chars_garbage == <<"g", "a", "r", "b", "a", "g", "e">>

ApiSubnets ==
    {[kind |-> "empty", addr |-> <<>>, prefix |-> -1],
     [kind |-> "malformed", addr |-> <<>>, prefix |-> -1],
     Cidr(<<10, 10, 10, 77>>, 24), Cidr(<<10, 10, 10, 0>>, 30)}

\* at most one element of S
Optional(S) == {<<>>} \cup {<<x>> : x \in S}

ApiBodies ==
    {Body(k, <<>>, <<>>, <<>>) : k \in {"unreadable", "null", "falsy", "array"}}
        \cup {Body("object", t, sn, fl) :
                 t \in Optional({<<>>, <<"t">>}),
                 sn \in Optional(ApiSubnets),
                 fl \in Optional({<<>>, Chars_2_4_30, Chars_garbage})}

ApiRequests ==
    {Request("create-cluster", h, b) : h \in {"header"}, b \in ApiBodies}
        \cup {Request(e, "header", NoBody) : e \in {"vms-count", "pipeline-status"}}

ApiConfigs ==
    {Config(c, g, i, FALSE) : c \in BOOLEAN, g \in {<<>>, <<"x">>, <<"7">>}, i \in BOOLEAN}

\* A request comes in: with no X-Auth-Data header, with an empty one, or
\* with a payload of ApiSent; BOT_TOKEN is unset or the secret of the sender.
InitApi ==
    /\ \E r \in ApiRequests :
          \/ /\ sent = UnsentPayload
             /\ \E h \in {<<>>, << <<>> >>} : request = [r EXCEPT !.header = h]
          \/ /\ sent \in ApiSent
             /\ request = [r EXCEPT !.header = <<Render(sent)>>]
    /\ bot_token \in {<<>>, SECRET}
    /\ config \in ApiConfigs
    /\ init_data = <<>> /\ now = 0 /\ out = NoOutcome /\ prev = NoPrev
    /\ IdleParsers
    /\ response = NoResponse /\ handler_ran = FALSE
    /\ gitlab = NoGitlab /\ setup_out = NoSetup
    /\ session = NoSession /\ kc = NoKc
    /\ pc = "request"

NextApi ==
    \/ RequireMaxAuth
    \/ OtherEndpoint
    \/ CreateClusterApi
    \/ CreateProject
    \/ ParseConfig
    \/ SetVariable
    \/ CreateCiFile
    \/ TriggerPipeline
    \/ SetupReturns

SpecApi == InitApi /\ [][NextApi]_vars

(***************************************************************************)
(* The Keycloak login (src/app.py): /oauth/keycloak/init,                  *)
(* /oauth/keycloak/callback and /logout on one session.  The session is    *)
(* the one the requests of a browser carry; each request is one step.      *)
(***************************************************************************)
\* secrets.token_urlsafe(32) of the n-th init: a text not given before
StateToken(n) == <<"s">> \o Decimal(n)

\* generate_code_verifier() of the n-th init
generate_code_verifier(n) == <<"v">> \o Decimal(n)

\* request.args.get(name): absent, empty, or a text; not x
Falsy(arg) == arg = <<>> \/ arg[1] = <<>>

\* what requests.post(token_url) and token_response.json() give: a
\* RequestException, an exception of another class (the body is no JSON
\* object), an object with "error", an object without "access_token", an
\* object with it
ExchangeOutcomes == {"request_exception", "crash", "error", "no_token", "token"}

\* what the userinfo request gives: an object or nothing (status not 200,
\* RequestException), a body that .json() cannot read, a JSON value that is
\* truthy and no object
UserinfoOutcomes == {"object", "unreadable", "not_object"}

\* how keycloak_oauth_callback ends on session s
CallbackResult(s, code, state, error, exchange, userinfo) ==
    IF error THEN "error_param"
    ELSE IF Falsy(state) \/ state # s.keycloak_state THEN "bad_state"
    ELSE IF Falsy(code) THEN "no_code"
    ELSE IF Falsy(s.keycloak_code_verifier) THEN "no_verifier"
    ELSE IF exchange = "request_exception" THEN "request_exception"
    ELSE IF exchange = "crash" THEN "crash"
    ELSE IF exchange = "error" THEN "token_error"
    ELSE IF exchange = "no_token" THEN "no_token"
    ELSE IF userinfo = "unreadable" THEN "crash"
    ELSE IF userinfo = "not_object" THEN "crash_authed"
    ELSE "ok"

\* the state and the verifier stay in the session
CleanUpNothing(s) == s

\* session.pop('keycloak_state', None); session.pop('keycloak_code_verifier', None)
CleanUp(s) == [s EXCEPT !.keycloak_state = <<>>, !.keycloak_code_verifier = <<>>]

\* the session keycloak_oauth_callback leaves; an exception after
\* session["is_authed"] = True leaves the function before the clean-up, and
\* the session is saved with the error response or not (saved)
SessionAfterCallback(s, result, saved) ==
    CASE result = "ok" -> CleanUp([s EXCEPT !.is_authed = TRUE])
      [] result = "crash_authed" -> IF saved THEN [s EXCEPT !.is_authed = TRUE] ELSE s
      [] OTHER -> s

KeycloakInit ==
    /\ pc = "session"
    /\ kc.inits < MaxInits
    /\ \E network \in BOOLEAN :
          LET n == kc.inits + 1
              result == IF ~config.keycloak THEN "not_configured"
                        ELSE IF ~network THEN "network"
                        ELSE "ok"
          IN  IF result = "ok"
              THEN /\ session' = [session EXCEPT !.keycloak_state = <<StateToken(n)>>,
                                                 !.keycloak_code_verifier =
                                                     <<generate_code_verifier(n)>>]
                   /\ kc' = [NoKc EXCEPT !.op = "init", !.result = result, !.inits = n,
                                         !.issued = <<StateToken(n)>>, !.spent = kc.spent]
              ELSE /\ kc' = [NoKc EXCEPT !.op = "init", !.result = result,
                                         !.inits = kc.inits, !.issued = kc.issued,
                                         !.spent = kc.spent]
                   /\ UNCHANGED session
    /\ UNCHANGED <<authVars, pc, subnetVars, flavorVars, webVars>>

\* the texts a callback can carry as state: none, the empty text, a state
\* that an init gave, a state that no init gave
CallbackStates == Optional({<<>>} \cup {StateToken(n) : n \in 1..(MaxInits + 1)})

KeycloakCallback ==
    /\ pc = "session"
    /\ \E code \in Optional({<<>>, <<"c">>}), state \in CallbackStates, error \in BOOLEAN,
          exchange \in ExchangeOutcomes, userinfo \in UserinfoOutcomes, saved \in BOOLEAN :
          LET result == CallbackResult(session, code, state, error, exchange, userinfo)
              asked == result \notin {"error_param", "bad_state", "no_code", "no_verifier"}
          IN  /\ session' = SessionAfterCallback(session, result, saved)
              /\ kc' = [kc EXCEPT !.op = "callback", !.state = state, !.code = code,
                                  !.error = error,
                                  !.stored_state = session.keycloak_state,
                                  !.stored_verifier = session.keycloak_code_verifier,
                                  !.exchange = IF asked THEN exchange ELSE "none",
                                  !.result = result,
                                  !.authed = result = "ok" \/ (result = "crash_authed" /\ saved),
                                  !.replay = state # <<>> /\ state[1] \in kc.spent,
                                  !.spent = IF result = "ok" THEN @ \cup {state[1]} ELSE @]
    /\ UNCHANGED <<authVars, pc, subnetVars, flavorVars, webVars>>

\* logout: session.clear()
Logout ==
    /\ pc = "session"
    /\ session' = NoSession
    /\ kc' = [NoKc EXCEPT !.op = "logout", !.inits = kc.inits, !.issued = kc.issued,
                          !.spent = kc.spent]
    /\ UNCHANGED <<authVars, pc, subnetVars, flavorVars, webVars>>

\* a new session; KEYCLOAK_URL, KEYCLOAK_REALM, KEYCLOAK_CLIENT_ID and
\* APP_ORIGIN are set or not
InitKeycloak ==
    /\ pc = "session"
    /\ config \in {Config(FALSE, <<>>, FALSE, k) : k \in BOOLEAN}
    /\ session = NoSession /\ kc = NoKc
    /\ request = NoRequest /\ response = NoResponse /\ handler_ran = FALSE
    /\ gitlab = NoGitlab /\ setup_out = NoSetup
    /\ IdleValidator
    /\ IdleParsers

NextKeycloak ==
    \/ KeycloakInit
    \/ KeycloakCallback
    \/ Logout

SpecKeycloak == InitKeycloak /\ [][NextKeycloak]_vars

(***************************************************************************)
(* The password login (src/app.py): POST /login and /logout on one         *)
(* session.                                                                *)
(***************************************************************************)
\* request.form of POST /login: each field absent or a text
Form(login_field, password_field) ==
    [kind |-> "form", login |-> login_field, password |-> password_field]

\* request.form.get(name, ""): the text of the field, "" when it is absent
FormGet(field) == IF field = <<>> THEN <<>> ELSE field[1]

\* login_val == USERNAME and password_val == PASSWORD
CredentialsMatch(form, cfg) ==
    LET login_val == FormGet(form.login)
        password_val == FormGet(form.password)
    IN  login_val = cfg.USERNAME /\ password_val = cfg.PASSWORD

\* login: the session it leaves
login(s, form, cfg) ==
    IF CredentialsMatch(form, cfg) THEN [s EXCEPT !.is_authed = TRUE] ELSE s

\* the texts of the login model
LoginTexts == {<<>>, <<"u">>, <<"p">>}

Login ==
    /\ pc = "session"
    /\ \E form \in {Form(l, p) : l \in Optional(LoginTexts), p \in Optional(LoginTexts)} :
          /\ request' = Request("login", <<>>, form)
          /\ session' = login(session, form, config)
          /\ kc' = [NoKc EXCEPT !.op = "login",
                                !.result = IF CredentialsMatch(form, config)
                                           THEN "ok" ELSE "refused",
                                !.authed = CredentialsMatch(form, config),
                                !.inits = kc.inits, !.issued = kc.issued, !.spent = kc.spent]
    /\ UNCHANGED <<authVars, pc, subnetVars, flavorVars,
                   response, handler_ran, config, gitlab, setup_out>>

\* a new session; APP_USERNAME and APP_PASSWORD are set or not
InitLogin ==
    /\ pc = "session"
    /\ \E u \in LoginTexts, p \in LoginTexts :
          config = [NoConfig EXCEPT !.USERNAME = u, !.PASSWORD = p]
    /\ session = NoSession /\ kc = NoKc
    /\ request = NoRequest /\ response = NoResponse /\ handler_ran = FALSE
    /\ gitlab = NoGitlab /\ setup_out = NoSetup
    /\ IdleValidator
    /\ IdleParsers

NextLogin ==
    \/ Login
    \/ Logout

SpecLogin == InitLogin /\ [][NextLogin]_vars

(***************************************************************************)
(* Claims about one validation (SpecAuth).                                 *)
(***************************************************************************)
\* the key/value pairs the sender wrote, hash aside
PairFields(s) == SelectSeq(s.fields, LAMBDA f : f.pair)

\* the auth_date of the payload: <<v>> for the last auth_date field, <<>>
\* when there is none
SentAuthDate(s) ==
    LET ads == SelectSeq(s.fields, LAMBDA f : f.pair /\ f.key = AUTH_DATE)
    IN  IF ads = <<>> THEN <<>> ELSE <<ads[Len(ads)].value>>

IsNumber(v) == v # <<>> /\ \A i \in 1..Len(v) : v[i] \in Digits

\* the call built the check-string and the hash of the payload is the
\* lowercase hex HMAC of that string under HMAC(key, msg)
HashIsSignatureUnder(key, msg) ==
    /\ out.hashed
    /\ sent.kind # "none"
    /\ SenderHash(sent) = SenderSign(key, msg, out.data_check_string)

\* age of the payload <= 86400 s, or no expiry check to make
NotExpired ==
    LET ad == SentAuthDate(sent)
    IN  \/ ad = <<>>
        \/ /\ IsNumber(ad[1])
           /\ \/ DigitsValue(ad[1]) = 0
              \/ now - DigitsValue(ad[1]) * TicksPerSecond <= 86400 * TicksPerSecond

\* C2 as stated: a payload whose hash is the hex HMAC of the check-string
\* under the signing key HMAC(key = secret, message = "WebAppData") is
\* accepted (while not expired).
C2_SecretKeyedDerivationAccepted ==
    (pc = "done" /\ HashIsSignatureUnder(bot_token, WebAppData) /\ NotExpired)
        => out.value

\* C2 amended: the signing key is HMAC-SHA256 with "WebAppData" as the HMAC
\* key and the secret as the message; a payload is accepted only if its hash
\* is the lowercase hex HMAC of the check-string under that key, and is
\* accepted if it is and the payload is not expired.
C2_SigningKeyDerivation ==
    (pc = "done" /\ out.hashed) =>
        /\ out.value => HashIsSignatureUnder(WebAppData, bot_token)
        /\ (HashIsSignatureUnder(WebAppData, bot_token) /\ NotExpired) => out.value

C2_Witness ==
    /\ pc = "done" /\ out.value
    /\ sent.kind = "telegram" /\ Len(sent.fields) = MaxFields
    /\ HashIsSignatureUnder(WebAppData, bot_token)

\* C3 as stated: the check-string holds the line key=value of every
\* key/value pair of the payload other than hash, blank values and every
\* occurrence of a repeated key included.
C3_EveryPairInCheckString ==
    (pc = "done" /\ out.hashed) =>
        LET lines == Split(out.data_check_string, "\n")
            pairs == PairFields(sent)
        IN  \A i \in 1..Len(pairs) :
                \E j \in 1..Len(lines) :
                    lines[j] = pairs[i].key \o <<"=">> \o pairs[i].value

\* C4: with a matching hash, the call returns False when the age of the
\* payload is over 86400 s and True when it is at most 86400 s; with no
\* auth_date, or auth_date 0, it returns True whatever the clock says.
C4_ExpiryDecision ==
    (pc = "done" /\ HashIsSignatureUnder(WebAppData, bot_token)) =>
        LET ad == SentAuthDate(sent)
        IN  /\ (ad = <<>> \/ (IsNumber(ad[1]) /\ DigitsValue(ad[1]) = 0)) => out.value
            /\ (ad # <<>> /\ IsNumber(ad[1]) /\ DigitsValue(ad[1]) # 0) =>
                   (out.value <=>
                       now - DigitsValue(ad[1]) * TicksPerSecond
                           <= 86400 * TicksPerSecond)

\* an age of exactly 86400 s, accepted
C4_Witness ==
    /\ pc = "done" /\ HashIsSignatureUnder(WebAppData, bot_token)
    /\ SentAuthDate(sent) = << <<"5">> >>
    /\ now = (86400 + 5) * TicksPerSecond
    /\ out.value

\* C5: every call returns a boolean and lets no exception out; it returns
\* False on an empty payload, on a payload with no hash field, on a payload
\* with no key=value field at all, and on a correctly signed payload whose
\* auth_date is not a number.
C5_UniformFailure ==
    pc = "done" =>
        /\ out.kind = "return"
        /\ out.value \in BOOLEAN
        /\ init_data = <<>> => ~out.value
        /\ sent.kind = "none" => ~out.value
        /\ (sent.kind \in {"none", "junk"} /\ PairFields(sent) = <<>>) => ~out.value
        /\ (/\ HashIsSignatureUnder(WebAppData, bot_token)
            /\ SentAuthDate(sent) # <<>>
            /\ ~IsNumber(SentAuthDate(sent)[1])) => ~out.value

\* a correctly signed payload with auth_date=x, refused
C5_Witness ==
    /\ pc = "done" /\ out.kind = "return" /\ ~out.value
    /\ HashIsSignatureUnder(WebAppData, bot_token)
    /\ SentAuthDate(sent) = << <<"x">> >>

(***************************************************************************)
(* Claims about a payload that comes again (SpecResend).                   *)
(***************************************************************************)
Tampered == pc = "redone" /\ prev.kind = "tamper"

\* C1 as stated: once a payload was accepted, the payload with any one of
\* its characters changed is refused.
C1_EveryOneCharChangeRefused ==
    (Tampered /\ prev.out.value) => ~out.value

\* C1 amended: once a payload was accepted, the payload with one character
\* changed is refused whenever the change alters exactly one of the two
\* things the validator compares: the hash value it extracts, the
\* check-string it builds.
C1_TamperDetected ==
    (/\ Tampered /\ prev.out.value
     /\ (out.received_hash # prev.out.received_hash)
            # (out.data_check_string # prev.out.data_check_string))
        => ~out.value

\* a changed value in a signed field, refused
C1_Witness ==
    /\ Tampered /\ prev.out.value /\ ~out.value
    /\ out.hashed
    /\ out.received_hash = prev.out.received_hash
    /\ out.data_check_string # prev.out.data_check_string

\* the keys of the key=value fields of the payload, hash among them, are
\* pairwise distinct
DistinctKeys(s) ==
    LET pairs == PairFields(s)
    IN  /\ \A i, j \in 1..Len(pairs) : i # j => pairs[i].key # pairs[j].key
        /\ \A i \in 1..Len(pairs) : pairs[i].key # HASH

\* C6: a payload with pairwise distinct keys gets the same result from the
\* validator in every order of its fields, wherever hash stands.
C6_FieldOrderIndependent ==
    (pc = "redone" /\ prev.kind = "reorder" /\ DistinctKeys(sent)) =>
        /\ out.kind = prev.out.kind
        /\ out.value = prev.out.value

\* an accepted payload of several signed fields, accepted in another order
C6_Witness ==
    /\ pc = "redone" /\ prev.kind = "reorder" /\ DistinctKeys(sent)
    /\ out.value /\ prev.out.value
    /\ \E i \in 1..Len(out.data_check_string) : out.data_check_string[i] = "\n"

(***************************************************************************)
(* Claims about parse_subnet (SpecSubnet).                                 *)
(***************************************************************************)
PrefixOf(sn) == IF sn.prefix = -1 THEN 32 ELSE sn.prefix

ValidCidr(sn) == sn.kind = "cidr" /\ PrefixOf(sn) \in 0..32

\* the number of addresses of the network of a valid CIDR
SizeOf(sn) == Pow2(32 - PrefixOf(sn))

\* the address at index k (from 0) of the ascending enumeration of the
\* network of a.b.c.d/p, p >= 8: the low 24 bits as one number
KthAddress(sn, k) ==
    LET low == sn.addr[2] * 65536 + sn.addr[3] * 256 + sn.addr[4]
        at  == low - (low % SizeOf(sn)) + k
    IN  <<sn.addr[1], at \div 65536, (at \div 256) % 256, at % 256>>

SubnetParsed == pc = "done" /\ subnet.kind = "cidr" /\ subnet_out.kind = "return"

Net_10_10_10_0_24 == Cidr(<<10, 10, 10, 0>>, 24)

Dotted_10_10_10(last) == <<"1", "0", ".", "1", "0", ".", "1", "0", ".", last>>

\* C7 as stated: the three node descriptors carry, in order, the sixth,
\* seventh and eighth addresses of the network.
C7_NodesAtSixthToEighth ==
    SubnetParsed =>
        \A i \in 1..3 :
            subnet_out.corax_nodes[i].host = AddressStr(KthAddress(subnet, 4 + i))

\* C7 amended: the three node descriptors carry, in order, the fifth, sixth
\* and seventh addresses of the network (indices 4, 5, 6; for 10.10.10.0/24:
\* 10.10.10.4, 10.10.10.5, 10.10.10.6).
C7_NodesAtFifthToSeventh ==
    SubnetParsed =>
        /\ Len(subnet_out.corax_nodes) = 3
        /\ \A i \in 1..3 :
               subnet_out.corax_nodes[i].host = AddressStr(KthAddress(subnet, 3 + i))
        /\ subnet = Net_10_10_10_0_24 =>
               /\ subnet_out.corax_nodes[1].host = Dotted_10_10_10("4")
               /\ subnet_out.corax_nodes[2].host = Dotted_10_10_10("5")
               /\ subnet_out.corax_nodes[3].host = Dotted_10_10_10("6")

C7_Witness ==
    /\ SubnetParsed /\ subnet = Net_10_10_10_0_24
    /\ subnet_out.corax_nodes[1].host = Dotted_10_10_10("4")

C9_TooSmallNetworkRaises ==
    (pc = "done" /\ ValidCidr(subnet)) =>
        /\ SizeOf(subnet) - 4 < 3 =>
               /\ subnet_out.kind = "raise"
               /\ subnet_out.exc = "ValueError"
               /\ subnet_out.msg = "Not enough IP addresses available in subnet"
               /\ subnet_out.value = <<>>
        /\ PrefixOf(subnet) \in {30, 31, 32} => subnet_out.kind = "raise"
        /\ SizeOf(subnet) >= 7 =>
               /\ subnet_out.kind = "return"
               /\ Len(subnet_out.value) = 1

C9_Witness ==
    /\ pc = "done" /\ subnet = Cidr(<<10, 10, 10, 0>>, 30)
    /\ subnet_out.kind = "raise" /\ subnet_out.exc = "ValueError"

(***************************************************************************)
(* Claims about parse_flavor (SpecFlavor).                                 *)
(***************************************************************************)
\* s is cpu "/" ram ws oc [%] as a whole: digits, '/', digits, optional
\* whitespace, digits, optional '%'
ShapedAs(s, cpu, ram, ws, oc, pct) ==
    /\ s = cpu \o <<"/">> \o ram \o ws \o oc \o pct
    /\ cpu # <<>> /\ AllIn(cpu, 1, Len(cpu), Digits)
    /\ ram # <<>> /\ AllIn(ram, 1, Len(ram), Digits)
    /\ AllIn(ws, 1, Len(ws), ReSpace)
    /\ oc # <<>> /\ AllIn(oc, 1, Len(oc), Digits)
    /\ pct \in {<<>>, <<"%">>}

\* the ways to read s as a whole in that shape
Readings(s) ==
    LET n == Len(s)
    IN  {r \in {[cpu |-> SubSeq(s, 1, i - 1), ram |-> SubSeq(s, i + 1, j),
                 ws |-> SubSeq(s, j + 1, k), oc |-> SubSeq(s, k + 1, n - q),
                 pct |-> SubSeq(s, n - q + 1, n)] :
                    i \in 1..n, j \in 1..n, k \in 1..n, q \in {0, 1}} :
            ShapedAs(s, r.cpu, r.ram, r.ws, r.oc, r.pct)}

\* C10: for a flavor of the shape digits '/' digits optional-whitespace
\* digits optional '%', cpu and ram are the first two digit groups as
\* written and overcommit is the third as written, except that a third group
\* that is exactly "30" gives "1:3"; "45", "030", "300", "3" stay as written.
\* Where the digits after '/' can be split in more than one way ("2/430"),
\* the groups are those with the longest second group.
C10_FlavorMatch ==
    (pc = "done" /\ Readings(flavor) # {}) =>
        \E r \in Readings(flavor) :
            /\ \A o \in Readings(flavor) : Len(o.ram) <= Len(r.ram)
            /\ flavor_out.cpu = r.cpu
            /\ flavor_out.ram = r.ram
            /\ flavor_out.overcommit =
                   IF r.oc = <<"3", "0">> THEN <<"1", ":", "3">> ELSE r.oc

\* "2/4 030%": the third group is not "30" and stays as written
C10_Witness ==
    /\ pc = "done"
    /\ flavor = <<"2", "/", "4", " ", "0", "3", "0", "%">>
    /\ flavor_out = FlavorResult(<<"2">>, <<"4">>, <<"0", "3", "0">>)

\* the flavors with a start of the shape digits '/' digits optional-whitespace
\* digits optional '%'
HasShapedStart(s) == \E n \in 1..Len(s) : Readings(SubSeq(s, 1, n)) # {}

NoFlavor == FlavorResult(<<>>, <<>>, <<>>)

\* C11 as stated: a flavor that is not, as a whole, of the shape digits '/'
\* digits optional-whitespace digits optional '%' gives cpu, ram and
\* overcommit all empty.
C11_NotShapedGivesEmpty ==
    (pc = "done" /\ Readings(flavor) = {}) => flavor_out = NoFlavor

\* C11 amended: a flavor gives cpu, ram and overcommit all empty exactly
\* when no start of it has the shape (the empty string, free text, a shaped
\* flavor after other characters); a flavor that starts with text of the
\* shape is read from that start, whatever follows it.
C11_NoShapedStartGivesEmpty ==
    pc = "done" =>
        /\ ~HasShapedStart(flavor) => flavor_out = NoFlavor
        /\ HasShapedStart(flavor) =>
               \E n \in 1..Len(flavor) :
                   \E r \in Readings(SubSeq(flavor, 1, n)) :
                       /\ flavor_out.cpu = r.cpu
                       /\ flavor_out.ram = r.ram
                       /\ flavor_out.overcommit \in {r.oc, <<"1", ":", "3">>}

\* "x2/4 30%": a shaped flavor after another character, all empty
C11_Witness ==
    /\ pc = "done"
    /\ flavor = <<"x", "2", "/", "4", " ", "3", "0", "%">>
    /\ flavor_out = NoFlavor

(***************************************************************************)
(* More claims about parse_subnet (SpecSubnet).                            *)
(***************************************************************************)
\* the same network written with its network address
Canonical(sn) == Cidr(KthAddress(sn, 0), sn.prefix)

\* C12: the result depends on the network only: a/p gives what the network
\* address of a's /p network with /p gives, gateway, deploy host and node
\* list alike.
C12_HostBitsIgnored ==
    (pc = "done" /\ ValidCidr(subnet)) =>
        LET same == parse_subnet(Canonical(subnet))
        IN  /\ subnet_out.kind = same.kind
            /\ subnet_out.value = same.value
            /\ subnet_out.corax_nodes = same.corax_nodes

\* 10.10.10.77/24 gives what 10.10.10.0/24 gives
C12_Witness ==
    /\ SubnetParsed /\ subnet = Cidr(<<10, 10, 10, 77>>, 24)
    /\ Canonical(subnet) = Net_10_10_10_0_24
    /\ subnet_out.value[1].CLUSTER_GATEWAY = Dotted_10_10_10("1")
    /\ subnet_out.corax_nodes[3].host = Dotted_10_10_10("6")

Quoted(chars) == <<"\"">> \o chars \o <<"\"">>

ExpectedRoles ==
    <<"[">> \o Quoted(<<"kafka">>) \o <<", ">> \o Quoted(<<"zookeeper">>) \o <<", ">>
        \o Quoted(<<"crxsr">>) \o <<", ">> \o Quoted(<<"crxui">>) \o <<"]">>

ExpectedNode(name, host) ==
    <<"{">> \o Quoted(<<"name">>) \o <<": ">> \o Quoted(<<name>>) \o <<", ">>
        \o Quoted(<<"host">>) \o <<": ">> \o Quoted(host) \o <<", ">>
        \o Quoted(<<"user">>) \o <<": ">> \o Quoted(<<"root">>) \o <<", ">>
        \o Quoted(<<"roles">>) \o <<": ">> \o ExpectedRoles \o <<"}">>

\* C13: CORAX_NODES is the JSON text of an array of exactly 3 objects with
\* the keys name, host, user, roles in that order; the names are
\* kafka-bpmx-01/02/03 in that order, user is "root", roles is ["kafka",
\* "zookeeper", "crxsr", "crxui"], whatever the subnet.
C13_FixedNodeListShape ==
    SubnetParsed =>
        /\ Len(subnet_out.corax_nodes) = 3
        /\ \A i \in 1..3 :
               /\ DOMAIN subnet_out.corax_nodes[i] = {"name", "host", "user", "roles"}
               /\ subnet_out.corax_nodes[i].user = "root"
               /\ subnet_out.corax_nodes[i].roles = <<"kafka", "zookeeper", "crxsr", "crxui">>
        /\ subnet_out.value[1].CORAX_NODES =
               <<"[">>
                   \o ExpectedNode("kafka-bpmx-01.testgis-platform.tech.pd33.testowner.gtn",
                                   subnet_out.corax_nodes[1].host) \o <<", ">>
                   \o ExpectedNode("kafka-bpmx-02.testgis-platform.tech.pd33.testowner.gtn",
                                   subnet_out.corax_nodes[2].host) \o <<", ">>
                   \o ExpectedNode("kafka-bpmx-03.testgis-platform.tech.pd33.testowner.gtn",
                                   subnet_out.corax_nodes[3].host)
                   \o <<"]">>

C13_Witness ==
    /\ SubnetParsed /\ subnet = Cidr(<<77, 0, 255, 10>>, 16)
    /\ subnet_out.corax_nodes[3].name = "kafka-bpmx-03.testgis-platform.tech.pd33.testowner.gtn"
    /\ subnet_out.value[1].CORAX_NODES[1] = "["

\* C14: parse_subnet("") returns CLUSTER_GATEWAY, DEPLOY_NODE_HOST and
\* CORAX_NODES all empty; the network is not parsed and nothing is raised.
C14_EmptySubnet ==
    (pc = "done" /\ subnet.kind = "empty") =>
        /\ subnet_out.kind = "return"
        /\ subnet_out.value =
               <<[CLUSTER_GATEWAY |-> <<>>, DEPLOY_NODE_HOST |-> <<>>, CORAX_NODES |-> <<>>]>>

C14_Witness ==
    /\ pc = "done" /\ subnet.kind = "empty"
    /\ subnet_out.kind = "return"
    /\ subnet_out.value[1].CORAX_NODES = <<>>

\* the five addresses of a result: gateway, deploy host, the three node hosts
FiveAddresses ==
    <<subnet_out.value[1].CLUSTER_GATEWAY, subnet_out.value[1].DEPLOY_NODE_HOST,
      subnet_out.corax_nodes[1].host, subnet_out.corax_nodes[2].host,
      subnet_out.corax_nodes[3].host>>

HeaderGiven == request.header # <<>> /\ request.header[1] # <<>>

\* the decorator has answered or passed the request on
Gated == pc # "request"

\* C15: the wrapped function runs only if X-Auth-Data is present and
\* validate_max_init_data(header, BOT_TOKEN) returned True; a missing or
\* empty header is answered 401 and a failed validation 403, the wrapped
\* function not run in both cases.
C15_AuthGate ==
    /\ handler_ran => HeaderGiven /\ out.kind = "return" /\ out.value
    /\ (Gated /\ ~HeaderGiven) => response.status = 401 /\ ~handler_ran
    /\ (Gated /\ HeaderGiven /\ ~(out.kind = "return" /\ out.value)) =>
           response.status = 403 /\ ~handler_ran

C15_Witness ==
    /\ pc = "done" /\ HeaderGiven /\ bot_token = SECRET
    /\ out.kind = "return" /\ ~out.value
    /\ response = JsonResponse(403, <<>>, "Invalid authentication signature", FALSE)
    /\ ~handler_ran

\* the calls of the GitLab server in the order the claim gives
ProvisioningOrder == <<"project", "variables", "file", "pipeline">>

\* op is among the calls made
WasCalled(op) == \E i \in 1..Len(gitlab.calls) : gitlab.calls[i] = op

\* C16: the GitLab operations of setup_gitlab_project come in the order
\* create project, create variables, commit .gitlab-ci.yml, trigger
\* pipeline; the pipeline is triggered at most once and only after the
\* commit returned; when an earlier step raises, no pipeline is triggered
\* and the exception reaches the caller.
C16_ProvisioningOrder ==
    /\ gitlab.calls = SubSeq(ProvisioningOrder, 1, Len(gitlab.calls))
    /\ gitlab.file => gitlab.project /\ gitlab.vars_ok + gitlab.vars_failed = Len(VariableKeys)
    /\ gitlab.pipelines <= 1
    /\ WasCalled("pipeline") => gitlab.file
    /\ (setup_out.kind = "raise" /\ setup_out.at # "trigger") =>
           /\ ~WasCalled("pipeline") /\ gitlab.pipelines = 0
           /\ pc = "done" /\ response.success = <<FALSE>>

C16_Witness ==
    /\ setup_out.kind = "return"
    /\ gitlab.calls = ProvisioningOrder
    /\ gitlab.project /\ gitlab.vars_ok = Len(VariableKeys) /\ gitlab.file
    /\ gitlab.pipelines = 1

\* C17: an exception raised inside setup_gitlab_project is answered with a
\* JSON body whose success is false: 400 with the text of the error for a
\* ValueError (AddressValueError and NetmaskValueError are ValueErrors), 500
\* for any other exception; success true with pipeline_id and project_id is
\* answered only when setup_gitlab_project returned.
C17_SetupErrorsSurfaced ==
    /\ setup_out.kind = "raise" =>
           /\ pc = "done"
           /\ response.json /\ response.success = <<FALSE>>
           /\ response.error = setup_out.msg
           /\ response.status =
                  IF setup_out.exc \in {"ValueError", "AddressValueError", "NetmaskValueError"}
                  THEN 400 ELSE 500
    /\ (response.success = <<TRUE>> /\ response.ids) =>
           setup_out.kind = "return" /\ response.status = 200

C17_Witness ==
    /\ setup_out = SetupOutcome("raise", "parse", "AddressValueError", subnet_out.msg)
    /\ subnet.kind = "malformed"
    /\ gitlab.project
    /\ response.status = 400 /\ response.success = <<FALSE>>

\* the body of the request is no JSON object with a non-empty title, subnet
\* and flavor
BodyLacksField ==
    \/ request.body.kind # "object"
    \/ \E i \in 1..Len(required_fields) : FieldMissing(request.body, required_fields[i])

\* C18: when the JSON body of POST /api/create-cluster is absent or one of
\* title, subnet, flavor is missing or empty, the endpoint answers 400 and
\* setup_gitlab_project is not called: no project, variable, file or
\* pipeline is created.
C18_MissingFieldsGive400 ==
    (pc = "done" /\ handler_ran /\ request.endpoint = "create-cluster" /\ BodyLacksField) =>
        /\ response.status = 400
        /\ setup_out = NoSetup /\ gitlab = NoGitlab

\* C21: when the derivation of the subnet fails inside setup_gitlab_project
\* (malformed CIDR, too-small network), setup_gitlab_project has written
\* nothing to GitLab at the moment it raises; no project has been created.
C21_NoWriteBeforeSubnetFails ==
    (setup_out.kind = "raise" /\ setup_out.at = "parse") =>
        ~gitlab.project /\ gitlab.calls = <<>>

\* C22: whenever setup_gitlab_project triggers a pipeline, each of the 14
\* variables has been created on the project; a variable that could not be
\* created keeps the pipeline from being triggered.
C22_PipelineOnlyFullySeeded ==
    WasCalled("pipeline") =>
        gitlab.vars_ok = Len(VariableKeys) /\ gitlab.vars_failed = 0

(***************************************************************************)
(* Claims about the password login (SpecLogin).                            *)
(***************************************************************************)
\* C23: POST /login sets is_authed only when the login and the password
\* sent equal the configured APP_USERNAME and APP_PASSWORD, and when these
\* are not configured no POST /login sets is_authed, one with empty or
\* absent fields included.
C23_LoginNeedsCredentials ==
    (kc.op = "login" /\ kc.authed) =>
        /\ request.body.login = <<config.USERNAME>>
        /\ request.body.password = <<config.PASSWORD>>
        /\ config.USERNAME # <<>> /\ config.PASSWORD # <<>>

(***************************************************************************)
(* Claims about the Keycloak login on one session (SpecKeycloak).          *)
(***************************************************************************)
\* C19: a callback sets is_authed only if its state is not empty and is the
\* state the latest init stored in the session, a code is given, a PKCE
\* verifier is stored and the token endpoint gave an access_token; a
\* callback that succeeds removes the state and the verifier, and a later
\* callback with a state that was accepted before is refused.
C19_StateSingleUse ==
    kc.op = "callback" =>
        /\ kc.authed =>
               /\ ~Falsy(kc.state)
               /\ kc.state = kc.stored_state /\ kc.state = kc.issued
               /\ ~Falsy(kc.code)
               /\ ~Falsy(kc.stored_verifier)
               /\ kc.exchange = "token"
               /\ ~kc.error
        /\ kc.result = "ok" =>
               /\ session.is_authed
               /\ session.keycloak_state = <<>> /\ session.keycloak_code_verifier = <<>>
        /\ kc.replay => ~kc.authed /\ kc.result \in {"error_param", "bad_state"}

C19_Witness ==
    /\ kc.op = "callback" /\ kc.replay
    /\ kc.state = kc.issued /\ kc.code = << <<"c">> >> /\ ~kc.error
    /\ kc.stored_state = <<>>
    /\ kc.result = "bad_state"
    /\ session.is_authed

====
